---- MODULE Spec2Model ----
(***************************************************************************)
(* The per-turn agent control loop of fixai: the LangGraph agent graph     *)
(* (agent_node, tool_node, should_continue) of app/agent/graph.py, the     *)
(* event publisher run_agent that consumes the graph's event stream, and   *)
(* the module-level capability-client registry of app/agent/tools.py that  *)
(* all turns of the process share.                                         *)
(*                                                                         *)
(* Every turn-local Python variable is a function over Turns.  A string is *)
(* modelled by a record [kind, id, len, ws]: what text it is, which model  *)
(* call produced it, its length in characters and how many of those are    *)
(* leading or trailing whitespace.                                         *)
(***************************************************************************)
EXTENDS Integers, Sequences, FiniteSets, TLC

VARIABLES
    cfg,                     \* the guardrail settings read at import (graph.py 33-37)
    registry,                \* tools._clients: service -> client or NoClient
    client_state,            \* per created client: "idle" | "open" | "closed" ("none" if not created)
    pc,                      \* position of each turn in run_agent / the graph
    cancel_event,            \* the caller's asyncio.Event, set or not
    messages,                \* AgentState.messages of the turn
    ai_call_count,           \* AgentState.ai_call_count
    total_input_tokens_est,  \* AgentState.total_input_tokens_est
    steps,                   \* graph supersteps taken, per node (their sum is counted
                             \* against recursion_limit)
    graph_status,            \* how the graph run stands: "running" | "END" | the exception raised
    tool_idx,                \* tool_node: index of the tool call being handled
    tool_messages,           \* tool_node: the local list tool_messages
    pub,                     \* run_agent locals: counters, captured texts, stopped_by_user
    events,                  \* the (event_type, data) tuples run_agent has yielded
    llm_log,                 \* one record per model invocation: call number, estimate, tools
                             \* bound, input, and the text of the completion once returned
    tool_log,                \* one record per executed tool body: tool, client it found
    sse_tail,                \* chat.event_stream: the SSE events it yields of its own accord
    saved,                   \* chat.event_stream: the Message rows committed for the turn
    conv_messages,           \* the conversation's committed Message rows, in order
    conversation_summary,    \* Conversation.conversation_summary (None or a text)
    conversation_summary_message_count,  \* Conversation.conversation_summary_message_count
    build,                   \* what _build_conversation_history did for the current turn
    chat_pc                  \* send_message of the conversation: "idle" | "streaming"

vars == <<cfg, registry, client_state, pc, cancel_event, messages, ai_call_count,
          total_input_tokens_est, steps, graph_status, tool_idx, tool_messages, pub,
          events, llm_log, tool_log, sse_tail, saved, conv_messages,
          conversation_summary, conversation_summary_message_count, build, chat_pc>>

chat_vars == <<sse_tail, saved>>

conv_vars == <<conv_messages, conversation_summary, conversation_summary_message_count,
               build, chat_pc>>

graph_vars == <<messages, ai_call_count, total_input_tokens_est, steps, tool_idx,
                tool_messages>>

(***************************************************************************)
(* Bounds of the model and constants of the program.                       *)
(***************************************************************************)
Turns == {"t1", "t2"}

\* largest agent_max_ai_calls setting explored
MaxAiCalls == 2

\* a recursion_limit setting low enough to be hit
LowRecursionLimit == 2

\* most rows a conversation is let grow to, most tool calls of a stored turn
MaxConvMessages == 12

MaxToolRows == 1

\* the longest message sequence handed to _estimate_tokens on its own
MaxEstimatedMessages == 2

RECENT_MESSAGE_COUNT == 4

MIN_MESSAGES_FOR_SUMMARY == 6

\* an agent_max_input_tokens setting that a long tool result exceeds
LowTokenBudget == 3000

\* an agent_max_input_tokens setting that the first prompt already exceeds
TinyTokenBudget == 1000

AGENT_MAX_AI_CALLS == 15
AGENT_RECURSION_LIMIT == 35

AGENT_MAX_INPUT_TOKENS == 80000

TOOL_RESPONSE_MAX_CHARS == 12000

TOKEN_ESTIMATION_DIVISOR == 4

SYSTEM_PROMPT_LEN == 6455

SYNTHESIS_REQUEST_LEN == 1037

TRUNCATION_MARKER_LEN == 45

SAFE_JSON_MARKER_LEN == 63

\* length of the user's message, of a model answer, of a short backend reply
UserMessageLen == 40

AnswerLen == 200

ShortResultLen == 300

\* length of a backend reply that is over every cap
LongResultLen == 20000

ErrorPayloadLen == 120

ToolArgsLen == 30

Services == {"code_parser", "metrics_explorer", "logs_explorer"}

\* None as the value of the nullable text column, and of the nullable integer column
None == [kind |-> "None", id |-> 0, len |-> 0, ws |-> 0]

NoCount == -1

\* before the first turn of the conversation no history has been built
NoBuild ==
    [history |-> <<>>, called |-> FALSE, to_summarize |-> 0,
     prev_summary |-> None, prev_count |-> NoCount,
     llm |-> [api_key |-> "", bedrock_url |-> "", model_id |-> "", max_tokens |-> 0]]

NoClient == <<>>

(***************************************************************************)
(* Strings.                                                                *)
(***************************************************************************)
Str(kind, id, len, ws) == [kind |-> kind, id |-> id, len |-> len, ws |-> ws]

EmptyStr == Str("", 0, 0, 0)

\* Python truthiness of a str: non-empty
Truthy(s) == s.len > 0

\* str.strip(): the leading and trailing whitespace is removed
Strip(s) == IF s.len = s.ws THEN EmptyStr ELSE Str(s.kind, s.id, s.len - s.ws, 0)

\* a or b on strings
OrElse(a, b) == IF Truthy(a) THEN a ELSE b

(***************************************************************************)
(* Messages and the token estimate.                                        *)
(***************************************************************************)
Msg(role, content, tool_calls, tool_call_id) ==
    [role |-> role, content |-> content, tool_calls |-> tool_calls,
     tool_call_id |-> tool_call_id]

NoId == <<>>

SystemMessage(content) == Msg("system", content, <<>>, NoId)

HumanMessage(content) == Msg("user", content, <<>>, NoId)

AIMessage(content, tool_calls) == Msg("assistant", content, tool_calls, NoId)

ToolMessage(content, tool_call_id) == Msg("tool", content, <<>>, tool_call_id)

\* len(str(name)) of the tool names the model may ask for
NameLen(name) ==
    CASE name = "metrics_explore_dashboard" -> 25
      [] name = "code_get_file" -> 13
      [] name = "logs_search" -> 11
      [] OTHER -> 12

RECURSIVE ToolCallChars(_)
ToolCallChars(tcs) ==
    IF tcs = <<>> THEN 0
    ELSE tcs[1].arglen + NameLen(tcs[1].name) + ToolCallChars(Tail(tcs))

RECURSIVE TotalChars(_)
TotalChars(msgs) ==
    IF msgs = <<>> THEN 0
    ELSE msgs[1].content.len + ToolCallChars(msgs[1].tool_calls) + TotalChars(Tail(msgs))

Max(a, b) == IF a >= b THEN a ELSE b

\* the quotient is rounded up
estimate_tokens_RoundsUp(msgs) ==
    Max(0, (TotalChars(msgs) + TOKEN_ESTIMATION_DIVISOR - 1) \div TOKEN_ESTIMATION_DIVISOR)

estimate_tokens(msgs) == Max(0, TotalChars(msgs) \div TOKEN_ESTIMATION_DIVISOR)

SYNTHESIS_REQUEST == Str("synthesis_request", 0, SYNTHESIS_REQUEST_LEN, 0)

\* the synthesis call is made on the messages alone
build_synthesis_messages_NoDirective(msgs) == msgs

build_synthesis_messages(msgs) == Append(msgs, HumanMessage(SYNTHESIS_REQUEST))

(***************************************************************************)
(* Organizations, capability clients and the shared registry.              *)
(***************************************************************************)
\* the services for which the organization of a turn has base URL and org id
Organization(t) ==
    IF t = "t1" THEN {"code_parser", "metrics_explorer"}
    ELSE {"metrics_explorer", "logs_explorer"}

\* the client objects run_agent builds at the start of turn t
OwnClient(t, svc) == IF svc \in Organization(t) THEN <<t, svc>> ELSE NoClient

OwnClients(t) == [svc \in Services |-> OwnClient(t, svc)]

AllClients == Turns \X Services

\* set_clients: the three keys of the module-level dict are overwritten
set_clients(t) == OwnClients(t)

(***************************************************************************)
(* The model's parameters: global settings and per-organization overrides. *)
(* A text parameter is "" and max_tokens is 0 when it is not set.          *)
(***************************************************************************)
\* config.py: claude_api_key (or the helper's key), claude_bedrock_url, claude_model_id,
\* claude_max_tokens
settings ==
    [api_key |-> "settings key", bedrock_url |-> "settings url",
     model_id |-> "settings model", max_tokens |-> 4096]

\* the claude_* columns of the organization of turn t, None read as not set
OrganizationAi(t) ==
    IF t = "t1"
    THEN [claude_api_key |-> "t1 key", claude_bedrock_url |-> "",
          claude_model_id |-> "t1 model", claude_max_tokens |-> 0]
    ELSE [claude_api_key |-> "", claude_bedrock_url |-> "t2 url",
          claude_model_id |-> "", claude_max_tokens |-> 2048]

\* run_agent 473-481: the ai_* keys of the initial state
ai_state(org) ==
    [ai_api_key |-> org.claude_api_key, ai_bedrock_url |-> org.claude_bedrock_url,
     ai_model_id |-> org.claude_model_id, ai_max_tokens |-> org.claude_max_tokens]

\* agent_node 268-277: a keyword is passed only for a truthy state value
llm_kwargs(state) ==
    [model_id |-> state.ai_model_id, bedrock_url |-> state.ai_bedrock_url,
     max_tokens |-> state.ai_max_tokens, api_key_override |-> state.ai_api_key]

\* ClaudeBedrockChat() without keywords
NoKwargs == [model_id |-> "", bedrock_url |-> "", max_tokens |-> 0, api_key_override |-> ""]

\* the parameters a ClaudeBedrockChat built with these keywords sends its request with
ClaudeBedrockChat(kwargs) ==
    [api_key |-> IF kwargs.api_key_override # "" THEN kwargs.api_key_override
                 ELSE settings.api_key,
     bedrock_url |-> IF kwargs.bedrock_url # "" THEN kwargs.bedrock_url
                     ELSE settings.bedrock_url,
     model_id |-> IF kwargs.model_id # "" THEN kwargs.model_id ELSE settings.model_id,
     max_tokens |-> IF kwargs.max_tokens # 0 THEN kwargs.max_tokens
                    ELSE settings.max_tokens]

\* _langchain_to_anthropic_messages: the request's message list; a system message goes
\* to the system prompt, an assistant message gets one tool_use block per tool call, a
\* tool message becomes a user message with one tool_result block
langchain_to_anthropic_messages(msgs) ==
    LET kept == SelectSeq(msgs, LAMBDA m : m.role # "system")
    IN  [i \in 1..Len(kept) |->
            [role |-> IF kept[i].role = "assistant" THEN "assistant" ELSE "user",
             tool_use |-> [k \in 1..Len(kept[i].tool_calls) |-> kept[i].tool_calls[k].id],
             tool_result |-> kept[i].tool_call_id]]

\* no model was built
NoLlm == [api_key |-> "", bedrock_url |-> "", model_id |-> "", max_tokens |-> 0]

\* the organization whose conversation chat.send_message serves
ConversationOrganization == OrganizationAi("t1")

\* BaseServiceClient.client: a closed or missing httpx client is (re)created on use
UseClient(cs, c) == [cs EXCEPT ![c] = "open"]

\* only the first client of the list is closed
CloseClients_FirstOnly(cs, t) ==
    [c \in AllClients |->
        IF c = <<t, "code_parser">> /\ c[2] \in Organization(t) /\ cs[c] = "open"
        THEN "closed" ELSE cs[c]]

\* BaseServiceClient.close on every client the turn created
CloseClients(cs, t) ==
    [c \in AllClients |->
        IF c[1] = t /\ c[2] \in Organization(t) /\ cs[c] = "open" THEN "closed" ELSE cs[c]]

(***************************************************************************)
(* The tool registry (one representative tool per service) and what a tool *)
(* call returns.                                                           *)
(***************************************************************************)
ALL_TOOLS == {"metrics_explore_dashboard", "code_get_file", "logs_search"}

ToolService(name) ==
    CASE name = "metrics_explore_dashboard" -> "metrics_explorer"
      [] name = "code_get_file" -> "code_parser"
      [] OTHER -> "logs_explorer"

UnknownToolName == "no_such_tool"

\* _cp / _me / _le: the client the registry holds for the tool's service right now
LookupClient(reg, name) == reg[ToolService(name)]

\* _handle_error: the JSON payload for the exception a tool body caught
handle_error(exc) ==
    CASE exc = "ServiceNotConfiguredError" -> Str("SERVICE_NOT_CONFIGURED", 0, ErrorPayloadLen, 0)
      [] exc = "HTTPStatusError" -> Str("API_ERROR", 0, ErrorPayloadLen, 0)
      [] OTHER -> Str("UNKNOWN_ERROR", 0, ErrorPayloadLen, 0)

\* what the backend does with the request of a tool body
BackendOutcomes == {"ok_short", "ok_long", "HTTPStatusError", "RequestError"}

\* the max_len the tool passes to _safe_json
SafeJsonMaxLen(name) ==
    CASE name = "metrics_explore_dashboard" -> 16000
      [] name = "code_get_file" -> TOOL_RESPONSE_MAX_CHARS
      [] OTHER -> 8000

\* _safe_json: the dump of the data, cut to max_len characters plus a marker
safe_json(len, max_len) ==
    IF len > max_len
    THEN Str("json truncated", 0, max_len + SAFE_JSON_MARKER_LEN, 0)
    ELSE Str("json", 0, len, 0)

\* the string a tool body returns: every exception is caught and turned into a payload
ToolBody(reg, name, backend) ==
    IF LookupClient(reg, name) = NoClient THEN handle_error("ServiceNotConfiguredError")
    ELSE CASE backend = "ok_short" -> safe_json(ShortResultLen, SafeJsonMaxLen(name))
           [] backend = "ok_long" -> safe_json(LongResultLen, SafeJsonMaxLen(name))
           [] OTHER -> handle_error(backend)

\* the first n characters of s followed by tool_node's truncation marker
Capped(s, n) ==
    [kind |-> "capped", id |-> s.id, len |-> n + TRUNCATION_MARKER_LEN, ws |-> 0,
     of |-> s.kind, keep |-> n]

\* a result the tool has already cut is passed on as it is
HardCap_TrustsTool(result) ==
    IF result.len > TOOL_RESPONSE_MAX_CHARS /\ result.kind # "json truncated"
    THEN Capped(result, TOOL_RESPONSE_MAX_CHARS)
    ELSE result

\* tool_node: the hard cap on a returned string
HardCap(result) ==
    IF result.len > TOOL_RESPONSE_MAX_CHARS
    THEN Capped(result, TOOL_RESPONSE_MAX_CHARS)
    ELSE result

UNKNOWN_TOOL == Str("Unknown tool", 0, 26, 0)

TOOL_ERROR == Str("Tool error", 0, 60, 0)

(***************************************************************************)
(* What the model may answer.                                              *)
(***************************************************************************)
\* the text of the answer to model call n: none, plain, padded with whitespace, blank
AiTexts(n) ==
    {EmptyStr, Str("ai", n, AnswerLen, 0), Str("ai", n, AnswerLen + 2, 2), Str("ai", n, 1, 1)}

\* the tool names a single answer may request, in order
ToolCallChoices ==
    {<<>>} \cup {<<nm>> : nm \in ALL_TOOLS \cup {UnknownToolName}}
           \cup {<<"code_get_file", UnknownToolName>>}

\* the answers explored: any text without requests, and requests with no text or with
\* a padded text; or (profile "plain") a plain text with at most one request for a
\* tool of a service
ModelAnswers(n, profile) ==
    IF profile = "plain"
    THEN [text : {Str("ai", n, AnswerLen, 0)},
          names : {<<>>, <<"code_get_file">>, <<"logs_search">>}]
    ELSE {a \in [text : AiTexts(n), names : ToolCallChoices] :
             a.names # <<>> => a.text \in {EmptyStr, Str("ai", n, AnswerLen + 2, 2)}}

\* the backend outcomes explored: all of them, or (profile "plain") a short reply
Backends(profile) == IF profile = "plain" THEN {"ok_short"} ELSE BackendOutcomes

\* the tool-call requests of answer n: id, name, args
ToolCalls(n, names) ==
    [i \in 1..Len(names) |-> [id |-> <<n, i>>, name |-> names[i], arglen |-> ToolArgsLen]]

LIMIT_REACHED == Str("Investigation limit reached", 0, 110, 0)

INVESTIGATION_COMPLETE == Str("Investigation complete", 0, 43, 0)

STOPPED_BEFORE_RESULTS == Str("stopped before any results", 0, 64, 0)

UNABLE_TO_RESPOND == Str("unable to generate a response", 0, 54, 0)

(***************************************************************************)
(* The guardrails.                                                         *)
(***************************************************************************)
Configs ==
    [max_ai_calls : 1..MaxAiCalls,
     recursion_limit : {LowRecursionLimit, AGENT_RECURSION_LIMIT},
     max_input_tokens : {TinyTokenBudget, LowTokenBudget, AGENT_MAX_INPUT_TOKENS}]

\* the settings take any integer: max_ai_calls may be configured as 0
AnyBudgetConfigs ==
    [max_ai_calls : 0..MaxAiCalls,
     recursion_limit : {AGENT_RECURSION_LIMIT},
     max_input_tokens : {LowTokenBudget, AGENT_MAX_INPUT_TOKENS}]

\* the count is incremented twice
NextCallCount_ByTwo(count) == count + 2

\* the count is read back without the increment
NextCallCount_NoIncrement(count) == count

\* agent_node 239: call_count = state.get("ai_call_count", 0) + 1
NextCallCount(count) == count + 1

\* synthesis is forced by the token estimate alone
force_synthesis_TokensOnly(call_count, token_est) == token_est > cfg.max_input_tokens

\* synthesis is forced by the call count alone
force_synthesis_CountOnly(call_count, token_est) == call_count = cfg.max_ai_calls

\* synthesis is forced one call before the last one as well
force_synthesis_OneCallEarly(call_count, token_est) ==
    call_count >= cfg.max_ai_calls - 1 \/ token_est > cfg.max_input_tokens

\* agent_node: must this call force synthesis
force_synthesis(call_count, token_est) ==
    call_count = cfg.max_ai_calls \/ token_est > cfg.max_input_tokens

\* the response of a forced-synthesis call is appended as the model gave it
SynthesisResponse_KeepsToolCalls(text, tool_calls) == AIMessage(text, tool_calls)

\* agent_node: the message the forced-synthesis branch returns for a response
SynthesisResponse(text, tool_calls) ==
    IF tool_calls # <<>>
    THEN AIMessage(OrElse(text, INVESTIGATION_COMPLETE), <<>>)
    ELSE AIMessage(text, tool_calls)

\* the edge to the tools is taken below the call limit whatever the last message is
should_continue_IgnoresToolCalls(msgs, call_count) ==
    IF call_count >= cfg.max_ai_calls THEN "END" ELSE "tools"

\* should_continue: "tools" or END
should_continue(msgs, call_count) ==
    LET last == msgs[Len(msgs)]
        has_tool_calls == last.role = "assistant" /\ last.tool_calls # <<>>
    IN  IF has_tool_calls
        THEN IF call_count >= cfg.max_ai_calls THEN "END" ELSE "tools"
        ELSE "END"

\* the graph may take another superstep
NodeVisits(t) == steps[t].agent + steps[t].tools

\* one node visit more than the limit is let through
WithinRecursionLimit_OffByOne(t) == NodeVisits(t) <= cfg.recursion_limit

WithinRecursionLimit(t) == NodeVisits(t) < cfg.recursion_limit

(***************************************************************************)
(* The publisher: events yielded by run_agent.                             *)
(***************************************************************************)
Ev(type, n, text, flag) == [type |-> type, n |-> n, text |-> text, flag |-> flag]

Yield(t, evs) == events' = [events EXCEPT ![t] = @ \o evs]

InitPub ==
    [ai_calls |-> 0, tool_calls |-> 0, last_ai_content |-> EmptyStr,
     chain_end_response |-> EmptyStr, stopped_by_user |-> FALSE, current_tool_call |-> ""]

\* the check at the top of the async-for body: a set cancel_event ends the loop
Break(t) ==
    /\ cancel_event[t]
    /\ pub' = [pub EXCEPT ![t].stopped_by_user = TRUE]
    /\ pc' = [pc EXCEPT ![t] = "finalize"]
    /\ UNCHANGED events

\* on_chain_end: the last message of the output, if an assistant message with content
OnChainEnd(p, last) ==
    IF last.role = "assistant" /\ Truthy(last.content)
    THEN [p EXCEPT !.chain_end_response = last.content]
    ELSE p

\* the final stats report the tool-call counter as ai_calls
FinalStats_ToolCalls(p) == Ev("stats", p.tool_calls, EmptyStr, TRUE)

\* run_agent 651-659: the stats event marked final
FinalStats(p) == Ev("stats", p.ai_calls, EmptyStr, TRUE)

\* the stopped_by_user branch is missing
FinalResponse_IgnoresStop(p) ==
    [text |-> OrElse(OrElse(p.last_ai_content, p.chain_end_response), UNABLE_TO_RESPOND),
     suffix |-> FALSE]

\* the text of the done event and whether the stopped-by-user suffix was appended
FinalResponse(p) ==
    LET final_response == OrElse(p.last_ai_content, p.chain_end_response)
    IN  IF p.stopped_by_user
        THEN IF Truthy(Strip(final_response))
             THEN [text |-> Strip(final_response), suffix |-> TRUE]
             ELSE [text |-> STOPPED_BEFORE_RESULTS, suffix |-> FALSE]
        ELSE [text |-> OrElse(final_response, UNABLE_TO_RESPOND), suffix |-> FALSE]

(***************************************************************************)
(* Initial states.                                                         *)
(***************************************************************************)
InitState(started) ==
    /\ registry = [svc \in Services |-> NoClient]
    /\ client_state = [c \in AllClients |-> "none"]
    /\ pc = [t \in Turns |-> IF t \in started THEN "new" ELSE "idle"]
    /\ cancel_event = [t \in Turns |-> FALSE]
    /\ messages = [t \in Turns |-> <<>>]
    /\ ai_call_count = [t \in Turns |-> 0]
    /\ total_input_tokens_est = [t \in Turns |-> 0]
    /\ steps = [t \in Turns |-> [agent |-> 0, tools |-> 0]]
    /\ graph_status = [t \in Turns |-> "running"]
    /\ tool_idx = [t \in Turns |-> 0]
    /\ tool_messages = [t \in Turns |-> <<>>]
    /\ pub = [t \in Turns |-> InitPub]
    /\ events = [t \in Turns |-> <<>>]
    /\ llm_log = [t \in Turns |-> <<>>]
    /\ tool_log = [t \in Turns |-> <<>>]
    /\ sse_tail = [t \in Turns |-> <<>>]
    /\ saved = [t \in Turns |-> <<>>]
    /\ conv_messages = <<>>
    /\ conversation_summary = None
    /\ conversation_summary_message_count = NoCount
    /\ build = NoBuild
    /\ chat_pc = "idle"

InitWith(started) == cfg \in Configs /\ InitState(started)

\* one turn in the process
Init == InitWith({"t1"})

(***************************************************************************)
(* run_agent up to the event loop.                                         *)
(***************************************************************************)
\* run_agent 410-481: build the clients, set_clients, build messages and initial state
StartTurn(t) ==
    /\ pc[t] = "new"
    /\ registry' = set_clients(t)
    /\ client_state' = [c \in AllClients |->
                          IF c[1] = t /\ c[2] \in Organization(t) THEN "idle" ELSE client_state[c]]
    /\ messages' = [messages EXCEPT ![t] =
                      <<SystemMessage(Str("system_prompt", 0, SYSTEM_PROMPT_LEN, 0)),
                        HumanMessage(Str("user_message", 0, UserMessageLen, 0))>>]
    /\ pc' = [pc EXCEPT ![t] = "agent"]
    /\ UNCHANGED <<conv_vars, chat_vars, graph_status, cfg, cancel_event, ai_call_count, total_input_tokens_est, steps,
                   tool_idx, tool_messages, pub, events, llm_log, tool_log>>

\* the caller sets the cancel_event while the event loop runs
Cancel(t) ==
    /\ pc[t] \in {"agent", "model", "agent_end", "tools", "tool_next", "tool_run", "graph_end"}
    /\ ~cancel_event[t]
    /\ cancel_event' = [cancel_event EXCEPT ![t] = TRUE]
    /\ UNCHANGED <<conv_vars, chat_vars, graph_status, cfg, registry, client_state, pc, graph_vars, pub, events, llm_log, tool_log>>

\* the except block swallows the exception without an event
RaiseInLoop_Silent(t, exc) ==
    /\ graph_status' = [graph_status EXCEPT ![t] = exc]
    /\ pc' = [pc EXCEPT ![t] = "cleanup"]
    /\ UNCHANGED <<pub, events>>

\* the exception is reported, and the code after the loop runs all the same
RaiseInLoop_FallThrough(t, exc) ==
    /\ graph_status' = [graph_status EXCEPT ![t] = exc]
    /\ Yield(t, <<Ev("error", 0, Str(exc, 0, 0, 0), FALSE)>>)
    /\ pc' = [pc EXCEPT ![t] = "finalize"]
    /\ UNCHANGED pub

\* run_agent 679-681: an exception out of the graph is reported as the error event
RaiseInLoop(t, exc) ==
    /\ graph_status' = [graph_status EXCEPT ![t] = exc]
    /\ Yield(t, <<Ev("error", 0, Str(exc, 0, 0, 0), FALSE)>>)
    /\ pc' = [pc EXCEPT ![t] = "cleanup"]
    /\ UNCHANGED pub

(***************************************************************************)
(* agent_node.                                                             *)
(***************************************************************************)
\* the graph enters the agent node: guardrails, then the model is invoked
\* (on_chat_model_start -> a stats event), or the recursion limit ends the run
AgentEnter(t) ==
    /\ pc[t] = "agent"
    /\ UNCHANGED <<conv_vars, chat_vars, cfg, registry, client_state, cancel_event, tool_idx, tool_messages, tool_log>>
    /\ LET call_count == NextCallCount(ai_call_count[t])
           token_est == estimate_tokens(messages[t])
           force == force_synthesis(call_count, token_est)
       IN  IF ~WithinRecursionLimit(t)
           THEN /\ RaiseInLoop(t, "GraphRecursionError")
                /\ UNCHANGED <<messages, ai_call_count, total_input_tokens_est, steps, llm_log>>
           ELSE /\ steps' = [steps EXCEPT ![t].agent = @ + 1]
                /\ UNCHANGED graph_status
                /\ IF call_count > cfg.max_ai_calls
                   THEN /\ messages' = [messages EXCEPT ![t] =
                                          Append(@, AIMessage(LIMIT_REACHED, <<>>))]
                        /\ ai_call_count' = [ai_call_count EXCEPT ![t] = call_count]
                        /\ total_input_tokens_est' =
                               [total_input_tokens_est EXCEPT ![t] = token_est]
                        /\ pc' = [pc EXCEPT ![t] = "agent_end"]
                        /\ UNCHANGED <<pub, events, llm_log>>
                   ELSE /\ llm_log' = [llm_log EXCEPT ![t] = Append(@,
                               [n |-> call_count, token_est |-> token_est,
                                tools_bound |-> ~force, output |-> None,
                                llm |-> ClaudeBedrockChat(
                                            llm_kwargs(ai_state(OrganizationAi(t)))),
                                input |-> IF force THEN build_synthesis_messages(messages[t])
                                          ELSE messages[t]])]
                        /\ UNCHANGED <<messages, ai_call_count, total_input_tokens_est>>
                        /\ \/ Break(t)
                           \/ /\ ~cancel_event[t]
                              /\ pub' = [pub EXCEPT ![t].ai_calls = @ + 1]
                              /\ Yield(t, <<Ev("stats", pub[t].ai_calls + 1, EmptyStr, FALSE)>>)
                              /\ pc' = [pc EXCEPT ![t] = "model"]

\* llm.invoke raises: the exception leaves the graph and the event loop.
\* (ClaudeBedrockChat implements _generate only, so a model call produces no
\* on_chat_model_stream event between its start and its end.)
ModelFail(t) ==
    /\ pc[t] = "model"
    /\ RaiseInLoop(t, "ModelError")
    /\ UNCHANGED <<conv_vars, chat_vars, cfg, registry, client_state, cancel_event, graph_vars, llm_log, tool_log>>

\* llm.invoke returns (on_chat_model_end); agent_node returns its state update
ModelReturnFor(t, profile) ==
    /\ pc[t] = "model"
    /\ LET call_count == NextCallCount(ai_call_count[t])
           token_est == estimate_tokens(messages[t])
           force == force_synthesis(call_count, token_est)
       IN  \E answer \in ModelAnswers(call_count, profile) :
             LET text == answer.text
                 tcs == ToolCalls(call_count, answer.names)
                 response == IF force THEN SynthesisResponse(text, tcs)
                             ELSE AIMessage(text, tcs)
             IN  /\ messages' = [messages EXCEPT ![t] = Append(@, response)]
                 /\ ai_call_count' = [ai_call_count EXCEPT ![t] = call_count]
                 /\ total_input_tokens_est' = [total_input_tokens_est EXCEPT ![t] = token_est]
                 /\ llm_log' = [llm_log EXCEPT ![t][Len(llm_log[t])].output = text]
                 /\ \/ Break(t)
                    \/ /\ ~cancel_event[t]
                       /\ pub' = [pub EXCEPT ![t].last_ai_content =
                                     IF Truthy(text) THEN text ELSE @]
                       /\ pc' = [pc EXCEPT ![t] = "agent_end"]
                       /\ UNCHANGED events
    /\ UNCHANGED <<conv_vars, chat_vars, graph_status, cfg, registry, client_state, cancel_event, steps, tool_idx,
                   tool_messages, tool_log>>

ModelReturn(t) == ModelReturnFor(t, "full")

\* on_chain_end of the agent node, then the conditional edge should_continue
AgentNodeEnd(t) ==
    /\ pc[t] = "agent_end"
    /\ \/ Break(t)
       \/ /\ ~cancel_event[t]
          /\ pub' = [pub EXCEPT ![t] = OnChainEnd(@, messages[t][Len(messages[t])])]
          /\ pc' = [pc EXCEPT ![t] =
                      IF should_continue(messages[t], ai_call_count[t]) = "tools"
                      THEN "tools" ELSE "graph_end"]
          /\ UNCHANGED events
    /\ UNCHANGED <<conv_vars, chat_vars, graph_status, cfg, registry, client_state, cancel_event, graph_vars, llm_log, tool_log>>

(***************************************************************************)
(* tool_node.                                                              *)
(***************************************************************************)
\* the tool-call requests of the last message
PendingToolCalls(t) == messages[t][Len(messages[t])].tool_calls

\* the graph enters the tool node, or the recursion limit ends the run
ToolNodeEnter(t) ==
    /\ pc[t] = "tools"
    /\ IF ~WithinRecursionLimit(t)
       THEN /\ RaiseInLoop(t, "GraphRecursionError")
            /\ UNCHANGED <<steps, tool_idx, tool_messages>>
       ELSE /\ steps' = [steps EXCEPT ![t].tools = @ + 1]
            /\ UNCHANGED graph_status
            /\ tool_idx' = [tool_idx EXCEPT ![t] = 1]
            /\ tool_messages' = [tool_messages EXCEPT ![t] = <<>>]
            /\ pc' = [pc EXCEPT ![t] = "tool_next"]
            /\ UNCHANGED <<pub, events>>
    /\ UNCHANGED <<conv_vars, chat_vars, cfg, registry, client_state, cancel_event, messages, ai_call_count,
                   total_input_tokens_est, llm_log, tool_log>>

\* a request for a name that is not in the tool map is passed over
UnknownTool_Skipped(t) ==
    /\ pc[t] = "tool_next"
    /\ tool_idx[t] <= Len(PendingToolCalls(t))
    /\ PendingToolCalls(t)[tool_idx[t]].name \notin ALL_TOOLS
    /\ tool_idx' = [tool_idx EXCEPT ![t] = @ + 1]
    /\ UNCHANGED <<conv_vars, chat_vars, graph_status, cfg, registry, client_state, pc,
                   cancel_event, messages, ai_call_count, total_input_tokens_est, steps,
                   tool_messages, pub, events, llm_log, tool_log>>

\* tool_node 331-336: a name that is not in the tool map
UnknownTool(t) ==
    /\ pc[t] = "tool_next"
    /\ tool_idx[t] <= Len(PendingToolCalls(t))
    /\ LET tc == PendingToolCalls(t)[tool_idx[t]]
       IN  /\ tc.name \notin ALL_TOOLS
           /\ tool_messages' = [tool_messages EXCEPT ![t] =
                                  Append(@, ToolMessage(UNKNOWN_TOOL, tc.id))]
    /\ tool_idx' = [tool_idx EXCEPT ![t] = @ + 1]
    /\ UNCHANGED <<conv_vars, chat_vars, graph_status, cfg, registry, client_state, pc, cancel_event, messages, ai_call_count,
                   total_input_tokens_est, steps, pub, events, llm_log, tool_log>>

\* tool_fn.ainvoke begins (on_tool_start -> a tool_start event)
ToolStart(t) ==
    /\ pc[t] = "tool_next"
    /\ tool_idx[t] <= Len(PendingToolCalls(t))
    /\ LET tc == PendingToolCalls(t)[tool_idx[t]]
       IN  /\ tc.name \in ALL_TOOLS
           /\ \/ Break(t)
              \/ /\ ~cancel_event[t]
                 /\ pub' = [pub EXCEPT ![t].tool_calls = @ + 1,
                                       ![t].current_tool_call = tc.name]
                 /\ Yield(t, <<Ev("tool_start", pub[t].tool_calls + 1,
                                  Str(tc.name, 0, 0, 0), FALSE)>>)
                 /\ pc' = [pc EXCEPT ![t] = "tool_run"]
    /\ UNCHANGED <<conv_vars, chat_vars, graph_status, cfg, registry, client_state, cancel_event, graph_vars, llm_log, tool_log>>

\* the tool body runs and returns a string (on_tool_end -> a tool_end event);
\* tool_node caps it and keeps it as the tool message
ToolReturnFor(t, profile) ==
    /\ pc[t] = "tool_run"
    /\ LET tc == PendingToolCalls(t)[tool_idx[t]]
           client == LookupClient(registry, tc.name)
       IN  \E backend \in (IF client = NoClient THEN {"none"} ELSE Backends(profile)) :
             LET result == ToolBody(registry, tc.name, backend)
             IN  /\ tool_log' = [tool_log EXCEPT ![t] =
                                   Append(@, [tool |-> tc.name, client |-> client,
                                              result |-> result])]
                 /\ client_state' = IF client = NoClient THEN client_state
                                    ELSE UseClient(client_state, client)
                 /\ tool_messages' = [tool_messages EXCEPT ![t] =
                                        Append(@, ToolMessage(HardCap(result), tc.id))]
                 /\ \/ Break(t)
                    \/ /\ ~cancel_event[t]
                       /\ pub' = [pub EXCEPT ![t].current_tool_call = ""]
                       /\ Yield(t, <<Ev("tool_end", pub[t].tool_calls, result, FALSE)>>)
                       /\ pc' = [pc EXCEPT ![t] = "tool_next"]
    /\ tool_idx' = [tool_idx EXCEPT ![t] = @ + 1]
    /\ UNCHANGED <<conv_vars, chat_vars, graph_status, cfg, registry, cancel_event, messages, ai_call_count,
                   total_input_tokens_est, steps, llm_log>>

ToolReturn(t) == ToolReturnFor(t, "full")

\* tool_node has no try/except: the exception of ainvoke leaves the graph
ToolRaise_Propagates(t) ==
    /\ pc[t] = "tool_run"
    /\ RaiseInLoop(t, "ToolError")
    /\ UNCHANGED <<conv_vars, chat_vars, cfg, registry, client_state, cancel_event, graph_vars, llm_log, tool_log>>

\* tool_fn.ainvoke raises (the arguments do not fit the tool's schema): on_tool_error,
\* for which run_agent has no branch; tool_node keeps "Tool error: ..." as the message
ToolRaise(t) ==
    /\ pc[t] = "tool_run"
    /\ LET tc == PendingToolCalls(t)[tool_idx[t]]
       IN  tool_messages' = [tool_messages EXCEPT ![t] =
                               Append(@, ToolMessage(TOOL_ERROR, tc.id))]
    /\ \/ Break(t)
       \/ /\ ~cancel_event[t]
          /\ pc' = [pc EXCEPT ![t] = "tool_next"]
          /\ UNCHANGED <<pub, events>>
    /\ tool_idx' = [tool_idx EXCEPT ![t] = @ + 1]
    /\ UNCHANGED <<conv_vars, chat_vars, graph_status, cfg, registry, client_state, cancel_event, messages, ai_call_count,
                   total_input_tokens_est, steps, llm_log, tool_log>>

\* tool_node returns: its messages are added to the state, the edge leads to the agent
ToolNodeEnd(t) ==
    /\ pc[t] = "tool_next"
    /\ tool_idx[t] > Len(PendingToolCalls(t))
    /\ messages' = [messages EXCEPT ![t] = @ \o tool_messages[t]]
    /\ \/ Break(t)
       \/ /\ ~cancel_event[t]
          /\ pc' = [pc EXCEPT ![t] = "agent"]
          /\ UNCHANGED <<pub, events>>
    /\ UNCHANGED <<conv_vars, chat_vars, graph_status, cfg, registry, client_state, cancel_event, ai_call_count,
                   total_input_tokens_est, steps, tool_idx, tool_messages, llm_log, tool_log>>

(***************************************************************************)
(* The end of the graph and of run_agent.                                  *)
(***************************************************************************)
\* the graph reached END: on_chain_end of the graph carries the whole final state
GraphEnd(t) ==
    /\ pc[t] = "graph_end"
    /\ graph_status' = [graph_status EXCEPT ![t] = "END"]
    /\ \/ Break(t)
       \/ /\ ~cancel_event[t]
          /\ pub' = [pub EXCEPT ![t] = OnChainEnd(@, messages[t][Len(messages[t])])]
          /\ pc' = [pc EXCEPT ![t] = "finalize"]
          /\ UNCHANGED events
    /\ UNCHANGED <<conv_vars, chat_vars, cfg, registry, client_state, cancel_event, graph_vars, llm_log, tool_log>>

\* a running stats event is yielded once more before the final one
Finalize_RunningStatsFirst(t) ==
    /\ pc[t] = "finalize"
    /\ LET fr == FinalResponse(pub[t])
       IN  Yield(t, <<Ev("stats", pub[t].ai_calls, EmptyStr, FALSE), FinalStats(pub[t]),
                      Ev("done", 0, fr.text, fr.suffix)>>)
    /\ pc' = [pc EXCEPT ![t] = "cleanup"]
    /\ UNCHANGED <<conv_vars, chat_vars, graph_status, cfg, registry, client_state,
                   cancel_event, graph_vars, pub, llm_log, tool_log>>

\* run_agent 630-664: the final stats and the done event
Finalize(t) ==
    /\ pc[t] = "finalize"
    /\ LET fr == FinalResponse(pub[t])
       IN  Yield(t, <<FinalStats(pub[t]),
                      Ev("done", 0, fr.text, fr.suffix)>>)
    /\ pc' = [pc EXCEPT ![t] = "cleanup"]
    /\ UNCHANGED <<conv_vars, chat_vars, graph_status, cfg, registry, client_state, cancel_event, graph_vars, pub, llm_log, tool_log>>

\* run_agent 682-685: the finally block closes the clients the turn created
Cleanup(t) ==
    /\ pc[t] = "cleanup"
    /\ client_state' = CloseClients(client_state, t)
    /\ pc' = [pc EXCEPT ![t] = "finished"]
    /\ UNCHANGED <<conv_vars, chat_vars, graph_status, cfg, registry, cancel_event, graph_vars, pub, events, llm_log, tool_log>>

(***************************************************************************)
(* chat.send_message: event_stream forwards the events of run_agent as SSE *)
(* events and then persists the turn's messages.                           *)
(***************************************************************************)
NO_RESPONSE == Str("No response generated", 0, 22, 0)

\* event_stream 350-401: the SSE event written for an event of run_agent
sse_event(ev) ==
    IF ev.type = "done" THEN [ev EXCEPT !.text = OrElse(ev.text, NO_RESPONSE)] ELSE ev

\* the SSE events the caller has received for turn t
Sse(t) == [i \in 1..Len(events[t]) |-> sse_event(events[t][i])] \o sse_tail[t]

\* full_response is the accumulated token text alone, and there are no token events
full_response_TokensOnly(t) == EmptyStr

\* event_stream: full_response after the loop (no token events; done replaces it)
full_response(t) ==
    LET dones == {i \in DOMAIN events[t] : events[t][i].type = "done"}
    IN  IF dones = {} THEN EmptyStr
        ELSE OrElse(events[t][CHOOSE i \in dones : \A j \in dones : j <= i].text, NO_RESPONSE)

Row(role, content, tool_name, tool_call_id) ==
    [role |-> role, content |-> content, tool_name |-> tool_name,
     tool_call_id |-> tool_call_id]

\* tool_calls_to_save: one entry per tool_start event, in order
tool_calls_to_save(evs) ==
    SelectSeq(evs, LAMBDA ev : ev.type = "tool_start")

\* tool_responses_to_save: one entry per tool_end event received when a tool call had
\* been recorded, with the id of the last call recorded before it
RECURSIVE tool_responses_to_save(_, _)
tool_responses_to_save(evs, last_call) ==
    IF evs = <<>> THEN <<>>
    ELSE IF evs[1].type = "tool_start"
         THEN tool_responses_to_save(Tail(evs), evs[1].n)
         ELSE IF evs[1].type = "tool_end" /\ last_call # 0
              THEN <<Row("tool", evs[1].text, "tool", last_call)>>
                       \o tool_responses_to_save(Tail(evs), last_call)
              ELSE tool_responses_to_save(Tail(evs), last_call)

\* event_stream 403-438: the rows added to the save session
RowsToSave(t) ==
    LET calls == tool_calls_to_save(events[t])
    IN  [i \in 1..Len(calls) |->
            Row("assistant", Str("Calling tool", 0, 14 + NameLen(calls[i].text.kind), 0),
                calls[i].text.kind, calls[i].n)]
        \o tool_responses_to_save(events[t], 0)
        \o <<Row("assistant", OrElse(full_response(t), NO_RESPONSE), "", 0)>>

\* the rows gathered so far are committed while run_agent is still to emit its last events
Persist_BeforeStreamEnds(t) ==
    /\ pc[t] = "finalize"
    /\ saved' = [saved EXCEPT ![t] = RowsToSave(t)]
    /\ UNCHANGED <<conv_vars, graph_status, cfg, registry, client_state, cancel_event,
                   graph_vars, pub, events, llm_log, tool_log, pc, sse_tail>>

\* event_stream 403-442: after run_agent's generator is exhausted the rows are
\* committed in a new session, or the commit fails and the except block of
\* event_stream yields an error event
Persist(t) ==
    /\ pc[t] = "finished"
    /\ \/ /\ saved' = [saved EXCEPT ![t] = RowsToSave(t)]
          /\ pc' = [pc EXCEPT ![t] = "saved"]
          /\ UNCHANGED sse_tail
       \/ /\ sse_tail' = [sse_tail EXCEPT ![t] =
                             <<Ev("error", 0, Str("SQLAlchemyError", 0, 0, 0), FALSE)>>]
          /\ pc' = [pc EXCEPT ![t] = "save_failed"]
          /\ UNCHANGED saved
    /\ UNCHANGED <<conv_vars, graph_status, cfg, registry, client_state, cancel_event,
                   graph_vars, pub, events, llm_log, tool_log>>

Next ==
    \E t \in Turns :
        \/ StartTurn(t)
        \/ Cancel(t)
        \/ AgentEnter(t)
        \/ ModelFail(t)
        \/ ModelReturn(t)
        \/ AgentNodeEnd(t)
        \/ ToolNodeEnter(t)
        \/ UnknownTool(t)
        \/ ToolStart(t)
        \/ ToolReturn(t)
        \/ ToolRaise(t)
        \/ ToolNodeEnd(t)
        \/ GraphEnd(t)
        \/ Finalize(t)
        \/ Cleanup(t)
        \/ Persist(t)

Spec == Init /\ [][Next]_vars

\* every step of a turn but the caller's Cancel; the event loop keeps scheduling it
Progress(t) ==
    \/ StartTurn(t) \/ AgentEnter(t) \/ ModelFail(t) \/ ModelReturn(t) \/ AgentNodeEnd(t)
    \/ ToolNodeEnter(t) \/ UnknownTool(t) \/ ToolStart(t) \/ ToolReturn(t) \/ ToolRaise(t)
    \/ ToolNodeEnd(t) \/ GraphEnd(t) \/ Finalize(t) \/ Cleanup(t) \/ Persist(t)

\* one turn in the process, under any configured max_ai_calls
AnyBudgetInit == cfg \in AnyBudgetConfigs /\ InitState({"t1"})

AnyBudgetSpec == AnyBudgetInit /\ [][Next]_vars

FairSpec == Spec /\ \A t \in Turns : WF_vars(Progress(t))

(***************************************************************************)
(* Two turns of different organizations in one process, with the default   *)
(* guardrails except max_ai_calls, plain answers and healthy backends.     *)
(***************************************************************************)
ConcInit ==
    /\ InitWith(Turns)
    /\ cfg = [max_ai_calls |-> MaxAiCalls, recursion_limit |-> AGENT_RECURSION_LIMIT,
              max_input_tokens |-> AGENT_MAX_INPUT_TOKENS]

ConcModelReturn(t) == ModelReturnFor(t, "plain")

ConcToolReturn(t) == ToolReturnFor(t, "plain")

ConcNext ==
    \E t \in Turns :
        \/ StartTurn(t)
        \/ AgentEnter(t)
        \/ ConcModelReturn(t)
        \/ AgentNodeEnd(t)
        \/ ToolNodeEnter(t)
        \/ ToolStart(t)
        \/ ConcToolReturn(t)
        \/ ToolNodeEnd(t)
        \/ GraphEnd(t)
        \/ Finalize(t)
        \/ Cleanup(t)

ConcSpec == ConcInit /\ [][ConcNext]_vars


(***************************************************************************)
(* chat.send_message across the turns of one conversation: the history     *)
(* built for each turn and the rolling summary.                            *)
(***************************************************************************)
\* the row send_message adds for the new user message, as the n-th row
UserRow(n) == Row("user", Str("user_message", n, UserMessageLen, 0), "", 0)

\* the rows event_stream commits after a turn with `calls` tool_start and `results`
\* tool_end events, the first of them being the n-th row of the conversation
TurnRows(n, calls, results) ==
    [i \in 1..calls |->
        Row("assistant", Str("Calling tool", n + i - 1, 27, 0), "code_get_file", i)]
    \o [i \in 1..results |->
        Row("tool", Str("json", n + calls + i - 1, ShortResultLen, 0), "code_get_file", i)]
    \o <<Row("assistant", Str("ai", n + calls + results, AnswerLen, 0), "", 0)>>

\* _message_to_langchain applied to each row, the rows that give None left out
to_langchain(rows) ==
    LET kept == SelectSeq(rows, LAMBDA m : m.role \in {"user", "assistant"})
    IN  [i \in 1..Len(kept) |->
            IF kept[i].role = "user" THEN HumanMessage(kept[i].content)
            ELSE AIMessage(kept[i].content, <<>>)]

\* _messages_to_summarizable_text: "User: ..." / "Assistant: ..." of the rows that are
\* not tool rows and have content, joined by blank lines
RECURSIVE summarizable_len(_)
summarizable_len(rows) ==
    IF rows = <<>> THEN 0
    ELSE LET m == rows[1]
             rest == summarizable_len(Tail(rows))
         IN  IF m.role = "tool" \/ ~Truthy(Strip(m.content)) THEN rest
             ELSE (IF m.role = "user" THEN 6 ELSE 11) + Strip(m.content).len
                      + (IF rest > 0 THEN 2 + rest ELSE 0)

\* summarize_conversation: [text, called, llm]; `outcome` is what llm.invoke does;
\* the model is built as ClaudeBedrockChat() whatever the organization
summarize_conversation(rows, outcome) ==
    LET n == summarizable_len(rows)
    IN  IF rows = <<>> \/ n = 0 THEN [text |-> EmptyStr, called |-> FALSE, llm |-> NoLlm]
        ELSE [called |-> TRUE,
              llm |-> ClaudeBedrockChat(NoKwargs),
              text |-> CASE outcome = "ok" -> Str("summary", Len(rows), AnswerLen, 0)
                         [] outcome = "empty" -> EmptyStr
                         [] OTHER -> Str("transcript", Len(rows),
                                         IF n > 500 THEN 503 ELSE n, 0)]

SummarizeOutcomes == {"ok", "empty", "raise"}

\* the count written with a new summary is one short
NewCoverageCount_OffByOne(to_summarize) == Len(to_summarize) - 1

\* _build_conversation_history 106: conversation_summary_message_count = len(to_summarize)
NewCoverageCount(to_summarize) == Len(to_summarize)

\* _build_conversation_history 98-102
need_summary(summary, count, to_summarize) ==
    summary = None \/ count = NoCount \/ count < Len(to_summarize)

\* the summary message that heads a compacted history
SummaryMessage(summary) ==
    SystemMessage([kind |-> "Previous conversation summary", id |-> 0,
                   len |-> 31 + summary.len, ws |-> 0, of |-> summary])

\* the whole stored conversation is passed on, whatever its length
build_conversation_history_Uncut(all_messages, summary, count, outcome) ==
    [history |-> to_langchain(IF all_messages # <<>>
                              THEN SubSeq(all_messages, 1, Len(all_messages) - 1)
                              ELSE <<>>),
     summary |-> summary, count |-> count, called |-> FALSE, to_summarize |-> 0,
     llm |-> NoLlm]

\* _build_conversation_history: the history, and the summary fields of conv afterwards
build_conversation_history(all_messages, summary, count, outcome) ==
    LET existing == IF all_messages # <<>>
                    THEN SubSeq(all_messages, 1, Len(all_messages) - 1) ELSE <<>>
        unchanged(h) == [history |-> h, summary |-> summary, count |-> count,
                         called |-> FALSE, to_summarize |-> 0, llm |-> NoLlm]
    IN  IF Len(existing) < MIN_MESSAGES_FOR_SUMMARY
        THEN unchanged(to_langchain(existing))
        ELSE LET to_summarize == SubSeq(existing, 1, Len(existing) - RECENT_MESSAGE_COUNT)
                 recent == SubSeq(existing, Len(existing) - RECENT_MESSAGE_COUNT + 1,
                                  Len(existing))
             IN  IF to_summarize = <<>> THEN unchanged(to_langchain(recent))
                 ELSE IF need_summary(summary, count, to_summarize)
                      THEN LET r == summarize_conversation(to_summarize, outcome)
                           IN  [history |-> <<SummaryMessage(r.text)>> \o to_langchain(recent),
                                summary |-> r.text,
                                count |-> NewCoverageCount(to_summarize),
                                called |-> r.called, llm |-> r.llm,
                                to_summarize |-> Len(to_summarize)]
                      ELSE [history |-> <<SummaryMessage(summary)>> \o to_langchain(recent),
                            summary |-> summary, count |-> count,
                            called |-> FALSE, llm |-> NoLlm,
                            to_summarize |-> Len(to_summarize)]

\* send_message 311-334: _get_conversation loads conv.messages; the user row is then
\* created with conversation_id only, added and flushed, which leaves the loaded
\* collection as it was; the history is built from conv.messages; commit
SendMessage ==
    /\ chat_pc = "idle"
    /\ Len(conv_messages) + 2 * MaxToolRows + 2 <= MaxConvMessages
    /\ \E outcome \in SummarizeOutcomes :
         LET loaded == conv_messages
             r == build_conversation_history(loaded, conversation_summary,
                                             conversation_summary_message_count, outcome)
         IN  /\ build' = [history |-> r.history, called |-> r.called, llm |-> r.llm,
                          to_summarize |-> r.to_summarize,
                          prev_summary |-> conversation_summary,
                          prev_count |-> conversation_summary_message_count]
             /\ conversation_summary' = r.summary
             /\ conversation_summary_message_count' = r.count
    /\ conv_messages' = Append(conv_messages, UserRow(Len(conv_messages) + 1))
    /\ chat_pc' = "streaming"
    /\ UNCHANGED <<chat_vars, graph_status, cfg, registry, client_state, pc, cancel_event,
                   graph_vars, pub, events, llm_log, tool_log>>

\* event_stream 403-438 after the turn's stream: the turn's rows are committed
PersistTurn ==
    /\ chat_pc = "streaming"
    /\ \E calls \in 0..MaxToolRows : \E results \in 0..calls :
         conv_messages' = conv_messages \o TurnRows(Len(conv_messages) + 1, calls, results)
    /\ chat_pc' = "idle"
    /\ UNCHANGED <<conversation_summary, conversation_summary_message_count, build,
                   chat_vars, graph_status, cfg, registry, client_state, pc, cancel_event,
                   graph_vars, pub, events, llm_log, tool_log>>

\* event_stream 440-442: the commit fails and nothing of the turn is stored
PersistFails ==
    /\ chat_pc = "streaming"
    /\ chat_pc' = "idle"
    /\ UNCHANGED <<conv_messages, conversation_summary, conversation_summary_message_count,
                   build, chat_vars, graph_status, cfg, registry, client_state, pc,
                   cancel_event, graph_vars, pub, events, llm_log, tool_log>>

ChatInit ==
    /\ InitWith({})
    /\ cfg = [max_ai_calls |-> MaxAiCalls, recursion_limit |-> AGENT_RECURSION_LIMIT,
              max_input_tokens |-> AGENT_MAX_INPUT_TOKENS]

ChatNext == SendMessage \/ PersistTurn \/ PersistFails

ChatSpec == ChatInit /\ [][ChatNext]_vars

(***************************************************************************)
(* _estimate_tokens on its own: each turn's message list is drawn from the *)
(* sequences of a few messages, and the estimate of it is computed.        *)
(***************************************************************************)
FourHundredChars == HumanMessage(Str("user_message", 1, 400, 0))

EstimatedMessages ==
    {FourHundredChars,
     HumanMessage(EmptyStr),
     AIMessage(EmptyStr, ToolCalls(1, <<"code_get_file", "logs_search">>)),
     AIMessage(Str("ai", 1, AnswerLen, 2), ToolCalls(1, <<"metrics_explore_dashboard">>)),
     ToolMessage(Str("json", 1, ShortResultLen + 1, 0), <<1, 1>>)}

EstimatedSequences ==
    UNION {[1..n -> EstimatedMessages] : n \in 0..MaxEstimatedMessages}

\* no estimate has been computed for the list yet: total_input_tokens_est is NoCount
EstInit ==
    /\ cfg = [max_ai_calls |-> MaxAiCalls, recursion_limit |-> AGENT_RECURSION_LIMIT,
              max_input_tokens |-> AGENT_MAX_INPUT_TOKENS]
    /\ registry = [svc \in Services |-> NoClient]
    /\ client_state = [c \in AllClients |-> "none"]
    /\ pc = [t \in Turns |-> "idle"]
    /\ cancel_event = [t \in Turns |-> FALSE]
    /\ messages \in [Turns -> EstimatedSequences]
    /\ ai_call_count = [t \in Turns |-> 0]
    /\ total_input_tokens_est = [t \in Turns |-> NoCount]
    /\ steps = [t \in Turns |-> [agent |-> 0, tools |-> 0]]
    /\ graph_status = [t \in Turns |-> "running"]
    /\ tool_idx = [t \in Turns |-> 0]
    /\ tool_messages = [t \in Turns |-> <<>>]
    /\ pub = [t \in Turns |-> InitPub]
    /\ events = [t \in Turns |-> <<>>]
    /\ llm_log = [t \in Turns |-> <<>>]
    /\ tool_log = [t \in Turns |-> <<>>]
    /\ sse_tail = [t \in Turns |-> <<>>]
    /\ saved = [t \in Turns |-> <<>>]
    /\ conv_messages = <<>>
    /\ conversation_summary = None
    /\ conversation_summary_message_count = NoCount
    /\ build = NoBuild
    /\ chat_pc = "idle"

\* _estimate_tokens(messages) is called, for the first time or again
EstimateTokens(t) ==
    /\ total_input_tokens_est' =
           [total_input_tokens_est EXCEPT ![t] = estimate_tokens(messages[t])]
    /\ UNCHANGED <<conv_vars, chat_vars, graph_status, cfg, registry, client_state, pc,
                   cancel_event, messages, ai_call_count, steps, tool_idx, tool_messages,
                   pub, events, llm_log, tool_log>>

EstNext == \E t \in Turns : EstimateTokens(t)

EstSpec == EstInit /\ [][EstNext]_vars

(***************************************************************************)
(* Properties.                                                             *)
(***************************************************************************)
Over(t) == pc[t] \in {"cleanup", "finished", "saved", "save_failed"}

EventsOfType(t, types) == {i \in DOMAIN events[t] : events[t][i].type \in types}

\* the guardrail bounds on one turn's model invocations and ToolExecution steps
WithinCallBudget(t) ==
    /\ Len(llm_log[t]) <= cfg.max_ai_calls
    /\ steps[t].tools <= cfg.max_ai_calls - 1

\* C1 as stated: a turn that was not cancelled and in which no model call failed ends
\* with its graph in Terminal (END), within max_ai_calls model invocations and
\* max_ai_calls - 1 ToolExecution steps.
C1_TerminalWithinBudget ==
    \A t \in Turns :
        (Over(t) /\ graph_status[t] # "ModelError" /\ ~pub[t].stopped_by_user)
            => (graph_status[t] = "END" /\ WithinCallBudget(t))

\* C1 as amended: every turn stays within max_ai_calls model invocations and
\* max_ai_calls - 1 ToolExecution steps; a turn that is not cancelled and whose calls
\* all return ends with its graph in Terminal or, only when
\* recursion_limit < 2 * max_ai_calls - 1, in the recursion-limit abort; and every
\* turn ends.
C1_EndsWithinBudget ==
    /\ [](\A t \in Turns :
            /\ WithinCallBudget(t)
            /\ graph_status[t] = "GraphRecursionError"
                   => cfg.recursion_limit < 2 * cfg.max_ai_calls - 1
            /\ (Over(t) /\ graph_status[t] # "ModelError" /\ ~pub[t].stopped_by_user)
                   => graph_status[t] \in {"END", "GraphRecursionError"})
    /\ <>(\A t \in Turns : pc[t] \in {"idle", "saved", "save_failed"})

\* a turn used its whole budget (max_ai_calls >= 2) and its graph reached END
C1_Witness ==
    \E t \in Turns :
        /\ graph_status[t] = "END"
        /\ cfg.max_ai_calls >= 2
        /\ Len(llm_log[t]) = cfg.max_ai_calls
        /\ steps[t].tools = cfg.max_ai_calls - 1

\* C2: run_agent yields exactly one terminal event (done or error): none while the
\* event loop runs, exactly one, as the last event, once the loop is left, whether by
\* normal completion, model failure, recursion-limit abort or observed cancellation.
C2_ExactlyOneTerminal ==
    \A t \in Turns :
        LET terminals == EventsOfType(t, {"done", "error"})
        IN  IF Over(t)
            THEN terminals = {Len(events[t])}
            ELSE terminals = {}

\* a turn ended by the recursion-limit abort, and one ended by cancellation
C2_Witness ==
    \E t \in Turns :
        /\ pc[t] = "finished"
        /\ graph_status[t] = "GraphRecursionError"
        /\ events[t][Len(events[t])].type = "error"

\* C3: every model invocation whose call number is max_ai_calls is made with no
\* tools bound, whatever the token estimate.
C3_LastCallUnbound ==
    \A t \in Turns : \A i \in DOMAIN llm_log[t] :
        llm_log[t][i].n = cfg.max_ai_calls => ~llm_log[t][i].tools_bound

\* the call at max_ai_calls was made after a tool round, with the estimate in budget
C3_Witness ==
    \E t \in Turns : \E i \in DOMAIN llm_log[t] :
        /\ llm_log[t][i].n = cfg.max_ai_calls
        /\ llm_log[t][i].n >= 2
        /\ llm_log[t][i].token_est <= cfg.max_input_tokens
        /\ ~llm_log[t][i].tools_bound

\* C4: every model invocation made when the estimate of the turn's messages exceeds
\* max_input_tokens is made with no tools bound, also below max_ai_calls.
C4_OverBudgetUnbound ==
    \A t \in Turns : \A i \in DOMAIN llm_log[t] :
        llm_log[t][i].token_est > cfg.max_input_tokens => ~llm_log[t][i].tools_bound

\* an over-budget call below max_ai_calls was made without tools
C4_Witness ==
    \E t \in Turns : \E i \in DOMAIN llm_log[t] :
        /\ llm_log[t][i].token_est > cfg.max_input_tokens
        /\ llm_log[t][i].n < cfg.max_ai_calls
        /\ ~llm_log[t][i].tools_bound

\* C5: the ai_calls values of a turn's stats events, the final one included, never
\* decrease and never exceed max_ai_calls.
C5_StatsMonotoneBounded ==
    \A t \in Turns :
        LET stats == EventsOfType(t, {"stats"})
        IN  /\ \A i \in stats : events[t][i].n <= cfg.max_ai_calls
            /\ \A i, j \in stats : i < j => events[t][i].n <= events[t][j].n

\* the final stats of a turn that made max_ai_calls >= 2 model calls
C5_Witness ==
    \E t \in Turns : \E i \in EventsOfType(t, {"stats"}) :
        /\ events[t][i].flag
        /\ events[t][i].n = cfg.max_ai_calls
        /\ cfg.max_ai_calls >= 2

\* C6 as stated: under every interleaving of concurrent turns, the body of each tool
\* call of a turn finds the capability client (or the absence of one) that the turn
\* built at its start for its own organization.
C6_OwnClientsOnly ==
    \A t \in Turns : \A i \in DOMAIN tool_log[t] :
        tool_log[t][i].client = OwnClient(t, ToolService(tool_log[t][i].tool))

\* the steps of tool_node on turn t's behalf
ToolNodeStep(t) ==
    /\ pc[t] \in {"tool_next", "tool_run"}
    /\ <<pc[t], tool_idx[t], tool_messages[t], messages[t]>>
           # <<pc'[t], tool_idx'[t], tool_messages'[t], messages'[t]>>

\* C7: no step of tool_node yields an error event or leaves the event loop by an
\* exception: each handled request, failed or not, adds one tool message carrying the
\* request's id, the finished node adds all of them to the turn's messages, and the
\* controller goes on to the next ModelCall (unless the cancellation is observed).
C7_ToolFailuresRecovered ==
    [][\A t \in Turns :
         ToolNodeStep(t) =>
            /\ \A i \in DOMAIN events'[t] :
                   i > Len(events[t]) => events'[t][i].type # "error"
            /\ pc'[t] \in {"tool_next", "tool_run", "agent", "finalize"}
            /\ pc'[t] = "finalize" => cancel_event[t]
            /\ tool_idx'[t] # tool_idx[t] =>
                   LET m == tool_messages'[t][Len(tool_messages'[t])]
                   IN  /\ tool_messages'[t] = Append(tool_messages[t], m)
                       /\ m.role = "tool"
                       /\ m.tool_call_id = PendingToolCalls(t)[tool_idx[t]].id
            /\ pc[t] = "tool_next" /\ tool_idx[t] > Len(PendingToolCalls(t)) =>
                   /\ Len(tool_messages[t]) = Len(PendingToolCalls(t))
                   /\ messages'[t] = messages[t] \o tool_messages[t]
                   /\ ~cancel_event[t] => pc'[t] = "agent"
    ]_vars

FailureKinds ==
    {"Unknown tool", "SERVICE_NOT_CONFIGURED", "API_ERROR", "UNKNOWN_ERROR", "Tool error"}

\* a model call was made whose input holds the message of a tool invocation that raised
C7_Witness ==
    \E t \in Turns : \E i \in DOMAIN llm_log[t] : \E j \in DOMAIN llm_log[t][i].input :
        /\ llm_log[t][i].input[j].role = "tool"
        /\ llm_log[t][i].input[j].content.kind = "Tool error"

\* C8 as stated: the body of a tool whose service is not configured for the turn's
\* organization returns the SERVICE_NOT_CONFIGURED payload.
C8_UnconfiguredReported ==
    \A t \in Turns : \A i \in DOMAIN tool_log[t] :
        ToolService(tool_log[t][i].tool) \notin Organization(t)
            => tool_log[t][i].result.kind = "SERVICE_NOT_CONFIGURED"

\* C9: once a model invocation has failed the turn is over: its events end with the
\* one error event, there is no done event, and no model call, tool call or event
\* follows.
C9_ModelFailureAborts ==
    /\ [](\A t \in Turns :
            graph_status[t] = "ModelError" =>
                /\ Over(t)
                /\ EventsOfType(t, {"error"}) = {Len(events[t])}
                /\ EventsOfType(t, {"done"}) = {})
    /\ [][\A t \in Turns :
            graph_status[t] = "ModelError" =>
                /\ llm_log'[t] = llm_log[t]
                /\ tool_log'[t] = tool_log[t]
                /\ events'[t] = events[t]]_vars

\* the second model call of a turn failed, after a tool round, and the turn finished
C9_Witness ==
    \E t \in Turns :
        /\ graph_status[t] = "ModelError"
        /\ pc[t] = "finished"
        /\ Len(llm_log[t]) = 2
        /\ tool_log[t] # <<>>

\* the text run_agent has gathered when the loop is left
Gathered(t) == OrElse(pub[t].last_ai_content, pub[t].chain_end_response)

\* C10 as stated: a turn whose cancellation was observed ends with done, never error,
\* whose text is the gathered text followed by the notice or, when no text was
\* gathered, the stopped-before-any-results message.
C10_StoppedDoneText ==
    \A t \in Turns :
        (Over(t) /\ pub[t].stopped_by_user) =>
            LET d == events[t][Len(events[t])]
            IN  /\ d.type = "done"
                /\ EventsOfType(t, {"error"}) = {}
                /\ IF Gathered(t) # EmptyStr
                   THEN d.text = Gathered(t) /\ d.flag
                   ELSE d.text = STOPPED_BEFORE_RESULTS /\ ~d.flag

\* C10 as amended: ... whose text is the gathered text with its leading and trailing
\* whitespace removed, followed by the notice, or, when nothing but whitespace was
\* gathered, the stopped-before-any-results message.
C10_StoppedDoneStripped ==
    \A t \in Turns :
        (Over(t) /\ pub[t].stopped_by_user) =>
            LET d == events[t][Len(events[t])]
            IN  /\ d.type = "done"
                /\ EventsOfType(t, {"error"}) = {}
                /\ IF Strip(Gathered(t)) # EmptyStr
                   THEN d.text = Strip(Gathered(t)) /\ d.flag
                   ELSE d.text = STOPPED_BEFORE_RESULTS /\ ~d.flag

\* a cancelled turn whose gathered text had surrounding whitespace got its done event
C10_Witness ==
    \E t \in Turns :
        /\ Over(t)
        /\ pub[t].stopped_by_user
        /\ Gathered(t).ws > 0
        /\ Gathered(t).len > Gathered(t).ws
        /\ events[t][Len(events[t])].flag

\* the cancellation of turn t was observed after the tool_start of a tool call whose
\* body then returned, and before any event of that call was handled
StoppedInFlight(t) ==
    /\ Over(t)
    /\ pub[t].stopped_by_user
    /\ pub[t].current_tool_call # ""
    /\ Len(tool_log[t]) = pub[t].tool_calls

\* C11 as stated: when the cancellation is observed between a tool_start and its
\* tool_end, the call completes, its tool_end is emitted (as many tool_end events as
\* tool_start events), and the turn ends with a done event whose text ends with the
\* stopped-by-user suffix.
C11_InFlightToolEndEmitted ==
    \A t \in Turns :
        StoppedInFlight(t) =>
            /\ Cardinality(EventsOfType(t, {"tool_end"}))
                   = Cardinality(EventsOfType(t, {"tool_start"}))
            /\ events[t][Len(events[t])].type = "done"
            /\ events[t][Len(events[t])].flag

\* the tool_end events of turn t strictly between positions i and j
ToolEndsBetween(t, i, j) ==
    {k \in EventsOfType(t, {"tool_end"}) : i < k /\ k < j}

\* C12 as stated: in a turn's event sequence every tool_start is followed, before the
\* next tool_start (and, in a turn that ended without being cancelled, before the end),
\* by exactly one tool_end, which carries the tool_start's number, whether the tool
\* returned or raised.
C12_ToolStartEndPaired ==
    \A t \in Turns : \A i \in EventsOfType(t, {"tool_start"}) :
        LET later == {j \in EventsOfType(t, {"tool_start"}) : j > i}
            stop  == IF later # {}
                     THEN CHOOSE j \in later : \A k \in later : j <= k
                     ELSE Len(events[t]) + 1
        IN  (later # {} \/ (Over(t) /\ ~pub[t].stopped_by_user)) =>
                /\ Cardinality(ToolEndsBetween(t, i, stop)) = 1
                /\ \A k \in ToolEndsBetween(t, i, stop) : events[t][k].n = events[t][i].n

\* event_stream has ended for turn t
StreamOver(t) == pc[t] \in {"saved", "save_failed"}

\* C13 as stated: the SSE stream of a turn holds exactly one done or error event, and
\* a failure to persist after done was delivered adds no event to the stream.
C13_OneTerminalOnStream ==
    \A t \in Turns :
        StreamOver(t) =>
            /\ Cardinality({i \in DOMAIN Sse(t) : Sse(t)[i].type \in {"done", "error"}}) = 1
            /\ EventsOfType(t, {"done"}) # {} => Len(Sse(t)) = Len(events[t])

\* C14: at the step in which run_agent finishes, however the turn ended, none of the
\* capability clients the turn created at its start is open.
C14_ClientsClosedAtFinish ==
    [][\A t \in Turns :
         (pc[t] = "cleanup" /\ pc'[t] = "finished") =>
            \A svc \in Organization(t) : client_state'[<<t, svc>>] # "open"]_vars

\* run_agent finished after an observed cancellation, and after a failure of the
\* model, with a client closed that a tool call had opened
C14_Witness ==
    \E t \in Turns :
        /\ pc[t] = "finished"
        /\ pub[t].stopped_by_user \/ graph_status[t] = "ModelError"
        /\ client_state[<<t, "metrics_explorer">>] = "closed"

\* C15: whenever a tool invocation returns a string, the tool message tool_node keeps
\* for it is, for a string longer than tool_response_max_chars, the string's first
\* tool_response_max_chars characters followed by the truncation marker (also when the
\* tool had cut the string itself), and otherwise the string unchanged.
C15_HardCapAuthoritative ==
    [][\A t \in Turns :
         Len(tool_log'[t]) > Len(tool_log[t]) =>
            LET result  == tool_log'[t][Len(tool_log'[t])].result
                content == tool_messages'[t][Len(tool_messages'[t])].content
            IN  IF result.len > TOOL_RESPONSE_MAX_CHARS
                THEN /\ content.kind = "capped"
                     /\ content.of = result.kind
                     /\ content.keep = TOOL_RESPONSE_MAX_CHARS
                     /\ content.len = TOOL_RESPONSE_MAX_CHARS + TRUNCATION_MARKER_LEN
                ELSE content = result]_vars

\* a result that _safe_json had already cut was over the cap and was capped again,
\* and the capped message was added to the turn's messages
C15_Witness ==
    \E t \in Turns : \E i \in DOMAIN tool_log[t] :
        /\ tool_log[t][i].result.kind = "json truncated"
        /\ tool_log[t][i].result.len > TOOL_RESPONSE_MAX_CHARS
        /\ \E j \in DOMAIN messages[t] :
               /\ messages[t][j].role = "tool"
               /\ messages[t][j].content.kind = "capped"

\* turn t ended, was not cancelled, each of its model calls returned, the answer to
\* each of its tool-bound calls requested tools, and no call was over the token budget
AlwaysAsksForTools(t) ==
    /\ Over(t)
    /\ ~pub[t].stopped_by_user
    /\ graph_status[t] # "ModelError"
    /\ \A i \in DOMAIN llm_log[t] :
           /\ llm_log[t][i].token_est <= cfg.max_input_tokens
           /\ llm_log[t][i].tools_bound =>
                  /\ Len(messages[t]) > Len(llm_log[t][i].input)
                  /\ messages[t][Len(llm_log[t][i].input) + 1].tool_calls # <<>>

\* the scenario's outcome with N = max_ai_calls: N model calls, the first N - 1 with
\* tools bound and each followed by a ToolExecution, the N-th without tools, one done
\* event and no error, final stats with ai_calls = N
ScenarioOutcome(t) ==
    LET N == cfg.max_ai_calls
    IN  /\ Len(llm_log[t]) = N
        /\ steps[t].tools = N - 1
        /\ \A i \in 1..(N - 1) :
               /\ llm_log[t][i].tools_bound
               /\ messages[t][Len(llm_log[t][i].input) + 2].role = "tool"
        /\ ~llm_log[t][N].tools_bound
        /\ Cardinality(EventsOfType(t, {"done"})) = 1
        /\ EventsOfType(t, {"error"}) = {}
        /\ \E i \in EventsOfType(t, {"stats"}) :
               /\ events[t][i].flag
               /\ events[t][i].n = N
               /\ \A j \in EventsOfType(t, {"stats"}) : events[t][j].flag => j = i

\* C16 as stated: with max_ai_calls = N >= 2, a model that requests tools on every
\* tool-bound call and a token budget never exceeded, the turn has the scenario's
\* outcome.
C16_ScenarioAnyLimit ==
    \A t \in Turns :
        (cfg.max_ai_calls >= 2 /\ AlwaysAsksForTools(t)) => ScenarioOutcome(t)

\* C16 as amended: ... and recursion_limit >= 2 * N - 1, the turn has the scenario's
\* outcome.
C16_ScenarioWithinRecursionLimit ==
    \A t \in Turns :
        (/\ cfg.max_ai_calls >= 2
         /\ cfg.recursion_limit >= 2 * cfg.max_ai_calls - 1
         /\ AlwaysAsksForTools(t)) => ScenarioOutcome(t)

\* the scenario ran to its end
C16_Witness ==
    \E t \in Turns :
        /\ cfg.max_ai_calls >= 2
        /\ cfg.recursion_limit >= 2 * cfg.max_ai_calls - 1
        /\ AlwaysAsksForTools(t)
        /\ pc[t] = "finished"
        /\ Len(llm_log[t]) = cfg.max_ai_calls

\* the conversation's messages before the new user message of the turn being served
Prior == SubSeq(conv_messages, 1, Len(conv_messages) - 1)

\* C17 as stated: for a turn with fewer than MIN_MESSAGES_FOR_SUMMARY prior messages
\* the history is the prior user and assistant messages, each as it is and in order,
\* no summarization call is made, and the stored summary and its coverage count are
\* as they were.
C17_SmallHistoryVerbatim ==
    (chat_pc = "streaming" /\ Len(Prior) < MIN_MESSAGES_FOR_SUMMARY) =>
        /\ build.history = to_langchain(Prior)
        /\ ~build.called
        /\ conversation_summary = build.prev_summary
        /\ conversation_summary_message_count = build.prev_count

\* C18 as stated: for a turn with at least MIN_MESSAGES_FOR_SUMMARY prior messages the
\* history is one summary system message followed by the last RECENT_MESSAGE_COUNT
\* prior messages; with older the prior messages before those, the summary is
\* regenerated, and the coverage count set to len(older), exactly when the stored count
\* was unset or below len(older), and otherwise the stored summary is used and no
\* model call is made.
C18_CompactedHistory ==
    (chat_pc = "streaming" /\ Len(Prior) >= MIN_MESSAGES_FOR_SUMMARY) =>
        LET older  == SubSeq(Prior, 1, Len(Prior) - RECENT_MESSAGE_COUNT)
            recent == SubSeq(Prior, Len(Prior) - RECENT_MESSAGE_COUNT + 1, Len(Prior))
            stale  == build.prev_count = NoCount \/ build.prev_count < Len(older)
        IN  /\ build.history # <<>>
            /\ build.history[1] = SummaryMessage(conversation_summary)
            /\ Tail(build.history) = to_langchain(recent)
            /\ IF stale
               THEN conversation_summary_message_count = Len(older)
               ELSE /\ ~build.called
                    /\ conversation_summary = build.prev_summary
                    /\ conversation_summary_message_count = build.prev_count

\* C19: over the turns of a conversation the stored coverage count never decreases
\* (once set it is never unset), and a step that writes it writes a value that is at
\* least the number of messages summarized in that turn.
C19_CoverageCountMonotone ==
    [][/\ conversation_summary_message_count # NoCount =>
              conversation_summary_message_count' >= conversation_summary_message_count
       /\ conversation_summary_message_count' # conversation_summary_message_count =>
              /\ conversation_summary_message_count' # NoCount
              /\ build'.to_summarize > 0
              /\ conversation_summary_message_count' >= build'.to_summarize]_vars

\* a summary that covered fewer messages has been replaced by one that covers more
C19_Witness ==
    /\ build.prev_count # NoCount
    /\ conversation_summary_message_count > build.prev_count
    /\ build.called

\* C20 as stated: the done text of a turn that was not cancelled is the text of the
\* turn's last model-call completion if that has text, otherwise the text of the last
\* assistant message of the final state if that has text, otherwise the apology.
C20_FinalTextSelection ==
    \A t \in Turns :
        (Over(t) /\ ~pub[t].stopped_by_user /\ EventsOfType(t, {"done"}) # {}) =>
            LET completion == llm_log[t][Len(llm_log[t])].output
                last == messages[t][Len(messages[t])]
                done == events[t][Len(events[t])]
            IN  done.text =
                    IF Truthy(completion) THEN completion
                    ELSE IF last.role = "assistant" /\ Truthy(last.content)
                         THEN last.content
                         ELSE UNABLE_TO_RESPOND

\* C21: a turn whose graph is about to make a node visit beyond recursion_limit is
\* aborted at that step, and an aborted turn is over with the error event as its last
\* and only terminal event, and no done event.
C21_RecursionLimitAborts ==
    /\ [][\A t \in Turns :
            (/\ pc[t] \in {"agent", "tools"}
             /\ pc'[t] # pc[t]
             /\ NodeVisits(t) >= cfg.recursion_limit) =>
                /\ graph_status'[t] = "GraphRecursionError"
                /\ steps'[t] = steps[t]]_vars
    /\ [](\A t \in Turns :
            graph_status[t] = "GraphRecursionError" =>
                /\ Over(t)
                /\ EventsOfType(t, {"error"}) = {Len(events[t])}
                /\ EventsOfType(t, {"done"}) = {})

\* the abort struck a turn whose cancel_event had been set
C21_Witness ==
    \E t \in Turns :
        /\ graph_status[t] = "GraphRecursionError"
        /\ cancel_event[t]
        /\ ~pub[t].stopped_by_user
        /\ pc[t] = "cleanup"

\* C22: the summarization call made for a turn of an organization's conversation is
\* sent with the organization's api key, provider URL, model id and max output tokens
\* where these are set, and with the global defaults where they are not.
C22_SummarizerUsesOverrides ==
    build.called =>
        build.llm = ClaudeBedrockChat(llm_kwargs(ai_state(ConversationOrganization)))

\* the characters _estimate_tokens counts in a message list, summed from its end
RECURSIVE CountedChars(_, _)
CountedChars(msgs, i) ==
    IF i = 0 THEN 0
    ELSE LET m == msgs[i]
             requested == {k \in DOMAIN m.tool_calls : TRUE}
             RECURSIVE Requests(_)
             Requests(ks) ==
                 IF ks = {} THEN 0
                 ELSE LET k == CHOOSE x \in ks : TRUE
                      IN  m.tool_calls[k].arglen + NameLen(m.tool_calls[k].name)
                              + Requests(ks \ {k})
         IN  m.content.len + Requests(requested) + CountedChars(msgs, i - 1)

\* C23: an estimate computed by _estimate_tokens is the counted characters divided by the
\* divisor and floored, it is not negative, equal message lists have equal estimates, and
\* the list of one 400-character message is estimated at 100 with the divisor 4.
C23_EstimateIsFlooredQuotient ==
    \A t \in Turns :
        total_input_tokens_est[t] # NoCount =>
            LET est == total_input_tokens_est[t]
                chars == CountedChars(messages[t], Len(messages[t]))
            IN  /\ est >= 0
                /\ est * TOKEN_ESTIMATION_DIVISOR <= chars
                /\ chars < (est + 1) * TOKEN_ESTIMATION_DIVISOR
                /\ \A u \in Turns :
                       (total_input_tokens_est[u] # NoCount /\ messages[u] = messages[t])
                           => total_input_tokens_est[u] = est
                /\ (messages[t] = <<FourHundredChars>> /\ TOKEN_ESTIMATION_DIVISOR = 4)
                       => est = 100

\* the 400-character message has been estimated, and so has a list whose counted
\* characters are not a multiple of the divisor
C23_Witness ==
    /\ messages["t1"] = <<FourHundredChars>>
    /\ total_input_tokens_est["t1"] = 100
    /\ total_input_tokens_est["t2"] # NoCount
    /\ CountedChars(messages["t2"], Len(messages["t2"])) % TOKEN_ESTIMATION_DIVISOR # 0

\* C24: whenever rows of a turn are in storage, run_agent has emitted all its events,
\* the terminal one among them, and the generator is exhausted; the stored rows are the
\* ones drawn from the complete event sequence.
C24_PersistedAfterStream ==
    \A t \in Turns :
        saved[t] # <<>> =>
            /\ pc[t] = "saved"
            /\ EventsOfType(t, {"done", "error"}) # {}
            /\ saved[t] = RowsToSave(t)

\* a turn with a tool call and its result has been stored
C24_Witness ==
    \E t \in Turns :
        /\ pc[t] = "saved"
        /\ \E i \in DOMAIN saved[t] : saved[t][i].role = "tool"
        /\ EventsOfType(t, {"done"}) # {}

\* C25: a model invocation whose call number is below max_ai_calls and whose token
\* estimate is within max_input_tokens has the tool registry bound, and two invocations
\* (of any turns, at any point) with the same call number and the same estimate agree
\* on whether tools are bound.
C25_ToolsBoundWithinLimits ==
    \A t \in Turns : \A i \in DOMAIN llm_log[t] :
        LET call == llm_log[t][i]
        IN  /\ (call.n < cfg.max_ai_calls /\ call.token_est <= cfg.max_input_tokens)
                   => call.tools_bound
            /\ \A u \in Turns : \A j \in DOMAIN llm_log[u] :
                   (llm_log[u][j].n = call.n /\ llm_log[u][j].token_est = call.token_est)
                       => llm_log[u][j].tools_bound = call.tools_bound

\* a first call within both limits was made with tools, and the turn's next call without
C25_Witness ==
    \E t \in Turns :
        /\ Len(llm_log[t]) = 2
        /\ llm_log[t][1].n < cfg.max_ai_calls
        /\ llm_log[t][1].token_est <= cfg.max_input_tokens
        /\ llm_log[t][1].tools_bound
        /\ ~llm_log[t][2].tools_bound

\* the model calls of turn t made without tools (forced synthesis) that have returned
ForcedReturned(t) ==
    {i \in DOMAIN llm_log[t] : ~llm_log[t][i].tools_bound /\ llm_log[t][i].output # None}

\* C26: once a forced-synthesis call has returned, the last message of the turn is the
\* assistant message appended for it, without tool-call requests; the call is the last
\* model call of the turn, and the turn is in no tool step and no further model step.
C26_ForcedSynthesisIsLast ==
    \A t \in Turns :
        /\ \A i \in DOMAIN llm_log[t] : ~llm_log[t][i].tools_bound => i = Len(llm_log[t])
        /\ \A i \in ForcedReturned(t) :
               LET last == messages[t][Len(messages[t])]
               IN  /\ last.role = "assistant"
                   /\ last.tool_calls = <<>>
                   /\ pc[t] \notin {"agent", "model", "tools", "tool_next", "tool_run"}
                   /\ steps[t].agent = i

\* a synthesis forced by the token estimate below max_ai_calls answered with tool-call
\* requests alone; they were dropped and the turn ended with done
C26_Witness ==
    \E t \in Turns : \E i \in ForcedReturned(t) :
        /\ llm_log[t][i].n < cfg.max_ai_calls
        /\ messages[t][Len(messages[t])].content = INVESTIGATION_COMPLETE
        /\ EventsOfType(t, {"done"}) # {}

\* C27: once a forced-synthesis call has returned empty content, the assistant message
\* appended for it carries the 'investigation complete' text.
C27_EmptySynthesisGetsFallback ==
    \A t \in Turns : \A i \in ForcedReturned(t) :
        ~Truthy(llm_log[t][i].output) =>
            messages[t][Len(messages[t])].content = INVESTIGATION_COMPLETE

\* the safety-net branch of agent_node was taken in turn t
SafetyNetTaken(t) ==
    \E i \in DOMAIN messages[t] : messages[t][i].content = LIMIT_REACHED

\* C28 as stated: whatever max_ai_calls is configured, ai_call_count never exceeds it
\* and the safety-net branch of agent_node is never taken.
C28_CountWithinAnyMax ==
    \A t \in Turns : ai_call_count[t] <= cfg.max_ai_calls /\ ~SafetyNetTaken(t)

\* C28: when max_ai_calls is configured as 1 or more, ai_call_count never exceeds it
\* and the safety-net branch of agent_node is never taken.
C28_CountWithinPositiveMax ==
    cfg.max_ai_calls >= 1 =>
        \A t \in Turns : ai_call_count[t] <= cfg.max_ai_calls /\ ~SafetyNetTaken(t)

\* a turn ended having used all of max_ai_calls >= 2 model calls
C28_Witness ==
    \E t \in Turns :
        /\ cfg.max_ai_calls >= 2
        /\ ai_call_count[t] = cfg.max_ai_calls
        /\ steps[t].tools = cfg.max_ai_calls - 1
        /\ pc[t] = "graph_end"

\* the last message of turn t is an assistant message with tool-call requests and
\* ai_call_count is below max_ai_calls
ToolsDue(t) ==
    LET last == messages[t][Len(messages[t])]
    IN  /\ last.role = "assistant"
        /\ last.tool_calls # <<>>
        /\ ai_call_count[t] < cfg.max_ai_calls

\* the assistant messages of turn t before its last message that carry requests
RequestsBeforeLast(t) ==
    {i \in 1..(Len(messages[t]) - 1) :
        messages[t][i].role = "assistant" /\ messages[t][i].tool_calls # <<>>}

\* C29: when the graph has routed a ModelCall step to the tool node, the last message
\* is an assistant message with at least one tool-call request and ai_call_count is
\* below max_ai_calls; when it has routed it to END, that is not so, and the tool node
\* has run once per earlier assistant message with requests and not for the last.
C29_RoutingAfterModelCall ==
    \A t \in Turns :
        /\ pc[t] = "tools" => ToolsDue(t)
        /\ pc[t] = "graph_end" =>
               /\ ~ToolsDue(t)
               /\ steps[t].tools = Cardinality(RequestsBeforeLast(t))
        /\ pc[t] \in {"finalize", "cleanup", "finished", "saved", "save_failed"} =>
               steps[t].tools <= Cardinality(RequestsBeforeLast(t))
                                     + (IF ToolsDue(t) THEN 1 ELSE 0)

\* the graph has routed an answer with two requests to the tool node
C29_Witness ==
    \E t \in Turns :
        /\ pc[t] = "tools"
        /\ Len(PendingToolCalls(t)) = 2
        /\ ai_call_count[t] < cfg.max_ai_calls
        /\ ~cancel_event[t]

\* the model calls of turn t that have returned
Returned(t) == {i \in DOMAIN llm_log[t] : llm_log[t][i].output # None}

\* C30: in the messages of a turn, an assistant message with n tool-call requests that
\* is not the last message is followed by exactly n tool messages, the k-th carrying
\* the tool_call_id of the k-th request, and the content "Unknown tool: ..." when the
\* requested name is not a tool; no tool is started or run for such a name, and
\* ai_call_count is the number of model calls that returned, whatever the tool node did.
C30_OneResultPerRequest ==
    \A t \in Turns :
        /\ \A i \in DOMAIN messages[t] :
               LET m == messages[t][i]
                   n == Len(m.tool_calls)
                   len == Len(messages[t])
               IN  (m.role = "assistant" /\ n > 0 /\ i < len) =>
                       /\ i + n <= len
                       /\ \A k \in 1..n :
                              /\ messages[t][i + k].role = "tool"
                              /\ messages[t][i + k].tool_call_id = m.tool_calls[k].id
                              /\ m.tool_calls[k].name \notin ALL_TOOLS =>
                                     messages[t][i + k].content = UNKNOWN_TOOL
                       /\ i + n < len => messages[t][i + n + 1].role # "tool"
        /\ \A j \in DOMAIN tool_log[t] : tool_log[t][j].tool \in ALL_TOOLS
        /\ \A j \in EventsOfType(t, {"tool_start"}) : events[t][j].text.kind \in ALL_TOOLS
        /\ ai_call_count[t] = Cardinality(Returned(t))

\* the results of a request for a tool and a request for an unknown name were appended
C30_Witness ==
    \E t \in Turns : \E i \in DOMAIN messages[t] :
        /\ Len(messages[t][i].tool_calls) = 2
        /\ Len(messages[t]) = i + 2
        /\ messages[t][i + 1].content # UNKNOWN_TOOL
        /\ messages[t][i + 2].content = UNKNOWN_TOOL
        /\ pc[t] = "agent"

\* C31: in a turn whose loop has observed the cancellation signal (stopped_by_user),
\* a step either yields nothing or yields the final stats followed by the done event,
\* and nothing is yielded once these are out.
C31_OnlyFinalEventsAfterStop ==
    [][\A t \in Turns :
          pub[t].stopped_by_user =>
              \/ events'[t] = events[t]
              \/ /\ EventsOfType(t, {"done"}) = {}
                 /\ \E d \in {events'[t][Len(events'[t])]} :
                        /\ d.type = "done"
                        /\ events'[t] = events[t] \o <<FinalStats(pub[t]), d>>]_vars

\* the signal was observed when the second model call returned, and the turn ended
C31_Witness ==
    \E t \in Turns :
        /\ pub[t].stopped_by_user
        /\ pub[t].ai_calls = 2
        /\ pub[t].tool_calls = 1
        /\ pc[t] = "finished"
        /\ saved[t] = <<>>

\* C32: the events of a turn whose run is over hold exactly one stats event marked
\* final; it is the last but one event, after every other stats and tool event, and the
\* last event is the terminal one, done or error.
C32_FinalStatsBeforeTerminal ==
    \A t \in Turns :
        Over(t) =>
            LET finals == {i \in EventsOfType(t, {"stats"}) : events[t][i].flag}
            IN  /\ Len(events[t]) >= 2
                /\ finals = {Len(events[t]) - 1}
                /\ events[t][Len(events[t])].type \in {"done", "error"}

\* C33: the history built for a turn with fewer than MIN_MESSAGES_FOR_SUMMARY prior
\* messages holds every prior user and assistant message, the latest assistant reply
\* among them; and no history holds the new user message or a tool-result message.
C33_HistoryHoldsEveryPrior ==
    chat_pc = "streaming" =>
        LET new_user == conv_messages[Len(conv_messages)]
        IN  /\ Len(Prior) < MIN_MESSAGES_FOR_SUMMARY =>
                   \A i \in DOMAIN Prior :
                       Prior[i].role \in {"user", "assistant"} =>
                           \E j \in DOMAIN build.history :
                               /\ build.history[j].content = Prior[i].content
                               /\ build.history[j].role = Prior[i].role
            /\ \A j \in DOMAIN build.history :
                   /\ build.history[j].role # "tool"
                   /\ build.history[j].content # new_user.content

\* C34: the history built for a turn with at least MIN_MESSAGES_FOR_SUMMARY prior
\* messages has at most RECENT_MESSAGE_COUNT + 1 messages, and the history built for a
\* turn with fewer prior messages has fewer than MIN_MESSAGES_FOR_SUMMARY.
C34_HistoryLengthBounded ==
    chat_pc = "streaming" =>
        IF Len(Prior) >= MIN_MESSAGES_FOR_SUMMARY
        THEN Len(build.history) <= RECENT_MESSAGE_COUNT + 1
        ELSE Len(build.history) < MIN_MESSAGES_FOR_SUMMARY

\* a conversation of more than MIN_MESSAGES_FOR_SUMMARY prior messages got a history of
\* a summary and a full recent window
C34_Witness ==
    /\ chat_pc = "streaming"
    /\ Len(Prior) > MIN_MESSAGES_FOR_SUMMARY
    /\ Len(build.history) = RECENT_MESSAGE_COUNT + 1
    /\ build.history[1].role = "system"

\* C35: no message of a turn's state is the synthesis directive; the input of a model
\* call made without tools is the state's messages followed by the directive, and once
\* such a call has returned the state's messages are those same messages followed by
\* one assistant message; the input of a call made with tools holds no directive.
C35_DirectiveNotInState ==
    \A t \in Turns :
        /\ \A i \in DOMAIN messages[t] : messages[t][i].content # SYNTHESIS_REQUEST
        /\ \A i \in DOMAIN llm_log[t] :
               LET call == llm_log[t][i]
                   n == Len(call.input)
               IN  IF call.tools_bound
                   THEN \A k \in 1..n : call.input[k].content # SYNTHESIS_REQUEST
                   ELSE /\ call.input[n] = HumanMessage(SYNTHESIS_REQUEST)
                        /\ IF call.output = None
                           THEN messages[t] = SubSeq(call.input, 1, n - 1)
                           ELSE /\ Len(messages[t]) = n
                                /\ SubSeq(messages[t], 1, n - 1) = SubSeq(call.input, 1, n - 1)
                                /\ messages[t][n].role = "assistant"

\* a synthesis forced after a tool round has returned
C35_Witness ==
    \E t \in Turns : \E i \in ForcedReturned(t) :
        /\ i >= 2
        /\ llm_log[t][i].input[Len(llm_log[t][i].input)].content = SYNTHESIS_REQUEST
        /\ Len(messages[t]) = Len(llm_log[t][i].input)
        /\ pc[t] = "agent_end"

\* C36: in the message list of every request sent to the model, an assistant message
\* with n tool_use blocks is followed at once by n user messages, the k-th holding the
\* tool_result for the k-th tool_use id, and a tool_result follows only such a message.
C36_RequestsAnsweredInModelInput ==
    \A t \in Turns : \A c \in DOMAIN llm_log[t] :
        LET sent == langchain_to_anthropic_messages(llm_log[t][c].input)
        IN  \A i \in DOMAIN sent :
                LET n == Len(sent[i].tool_use)
                IN  /\ i + n <= Len(sent)
                    /\ \A k \in 1..n : sent[i + k].tool_result = sent[i].tool_use[k]
                    /\ sent[i].tool_result # NoId =>
                           \E j \in 1..(i - 1) : \E k \in DOMAIN sent[j].tool_use :
                               /\ j + k = i
                               /\ sent[j].tool_use[k] = sent[i].tool_result

\* a request was sent whose messages hold an assistant message with two tool_use blocks
C36_Witness ==
    \E t \in Turns : \E c \in DOMAIN llm_log[t] :
        \E i \in DOMAIN llm_log[t][c].input :
            /\ Len(llm_log[t][c].input[i].tool_calls) = 2
            /\ llm_log[t][c].output # None

\* C37: a turn makes at most 2 * max_ai_calls - 1 node visits; so under a recursion
\* limit of at least that many no turn is aborted for the recursion limit, and the
\* default limit is above that number for the default max_ai_calls.
C37_NodeVisitsBounded ==
    /\ 2 * AGENT_MAX_AI_CALLS - 1 < AGENT_RECURSION_LIMIT
    /\ \A t \in Turns :
           /\ NodeVisits(t) <= 2 * cfg.max_ai_calls - 1
           /\ cfg.recursion_limit >= 2 * cfg.max_ai_calls - 1 =>
                  graph_status[t] # "GraphRecursionError"

\* a turn ended after 2 * max_ai_calls - 1 node visits under the default recursion limit
C37_Witness ==
    \E t \in Turns :
        /\ cfg.max_ai_calls >= 2
        /\ cfg.recursion_limit = AGENT_RECURSION_LIMIT
        /\ NodeVisits(t) = 2 * cfg.max_ai_calls - 1
        /\ graph_status[t] = "END"

\* the stats events of turn t that are not marked final
RunningStats(t) == {i \in EventsOfType(t, {"stats"}) : ~events[t][i].flag}

C39_NoClientOpenAtEnd ==
    (\A t \in Turns : pc[t] = "finished") =>
        \A c \in AllClients : client_state[c] # "open"

\* the stored rows of turn t that are assistant messages without tool_name
FinalRows(t) == {i \in DOMAIN saved[t] : saved[t][i].role = "assistant" /\ saved[t][i].tool_name = ""}

====
